---- MODULE Spec2Model ----
(***************************************************************************)
(* A model of target-postgres:                                             *)
(*   - perftimer.py : PerfTimer / BatchPerfTimer (lap timer and the        *)
(*                    batch-size controller)                               *)
(*   - sinks.py     : PostgresConnector.hd_to_sql_type / to_sql_type /     *)
(*                    create_empty_table, PostgresSink.preprocess_record,  *)
(*                    PostgresSink.bulk_insert_records                     *)
(*   - target.py    : Targetpostgres.get_sink / add_sqlsink                *)
(* Each component has its own specification over the shared variables:     *)
(*   Spec        the timer and the batch-size controller                   *)
(*   SpecMapper  the type mapper                                           *)
(*   SpecPlanner the table planner                                         *)
(*   SpecConform the record conformer                                      *)
(*   SpecSink    the flush of one sink, PostgresSink.bulk_insert_records   *)
(*   SpecTarget  the sink registry, Targetpostgres.get_sink                *)
(***************************************************************************)
EXTENDS Integers, Sequences, FiniteSets, TLC

VARIABLES
    \* ---- perftimer.py ----
    start_time,        \* PerfTimer._start_time   (None or a clock reading)
    stop_time,         \* PerfTimer._stop_time
    lap_time,          \* PerfTimer._lap_time
    sink_max_size,     \* BatchPerfTimer._sink_max_size
    max_perf_counter,  \* BatchPerfTimer._max_perf_counter (target seconds)
    now,               \* the environment's time.perf_counter()
    lap_open,          \* history: a successful start() with no successful stop() after it
    calls,             \* history: number of counter_based_max_size() calls made
    last,              \* history: the last call, its outcome and what it saw
    \* ---- sinks.py: type mapper / table planner ----
    jsonschema_type,   \* the argument of to_sql_type / hd_to_sql_type
    sql_type,          \* what the mapper returned (or the exception it raised)
    plan,              \* the arguments of create_empty_table and the connector config
    table,             \* what create_empty_table created (or the exception it raised)
    \* ---- sinks.py: record conformer ----
    record,            \* the record dict, mutated in place by preprocess_record
    properties,        \* self.schema.get("properties")
    log_count,         \* number of "Removed Null Character(s)" messages logged
    conf,              \* history: calls made, their outcomes, the record before/after
    \* ---- sinks.py: flush ----
    load_method,       \* self.config["load_method"]
    catalog,           \* the database: the primary key of each table
    target_table,      \* PostgresSink._target_table
    insert_statement,  \* PostgresSink._insert_statement
    sink_log,          \* number of driver errors logged by bulk_insert_records
    flushed,           \* history: flushes made, the last one's inputs and outcome
    \* ---- target.py ----
    sinks_active,      \* Target._sinks_active: stream name -> sink (NoSink: no entry)
    sinks_to_clear,    \* Target._sinks_to_clear
    got                \* history: get_sink calls made, the last one's inputs and outcome

timerVars == <<start_time, stop_time, lap_time, sink_max_size, max_perf_counter,
               now, lap_open, calls, last>>
mapperVars == <<jsonschema_type, sql_type, plan, table>>
conformVars == <<record, properties, log_count, conf>>
sinkVars == <<load_method, catalog, target_table, insert_statement, sink_log, flushed>>
targetVars == <<sinks_active, sinks_to_clear, got>>
vars == <<timerVars, mapperVars, conformVars, sinkVars, targetVars>>

(***************************************************************************)
(* perftimer.py                                                            *)
(*                                                                         *)
(* Time is counted in ticks of 1/20 s, so that the laps 0.1 s, 0.25 s,     *)
(* 0.95 s, 1.35 s and 2.0 s and the dead-band bounds (-0.33 and 0.75       *)
(* times the target) are exact in integer arithmetic.                      *)
(***************************************************************************)

\* `None` for the three time fields (clock readings are >= 0).
None == -1

\* max_perf_counter: float = 1, i.e. one second, in ticks.
DefaultMaxPerfCounter == 20

SINK_MAX_SIZE_CELING == 100000

\* Bounds of the model.
MaxNow == 45      \* the clock stops advancing here
MaxCalls == 3     \* counter_based_max_size() calls per behaviour

\* How far the clock may have advanced between two readings of perf_counter().
Advance == {0, 2, 5, 19, 27, 40}

\* Constructor arguments BatchPerfTimer(max_size, max_perf_counter).
InitSizes == {5, 10, 11, 50, 100, 990, 1000, 5000, 9900, 10000, 14000, 15000,
              20000, 99900, 100000}
Targets == {DefaultMaxPerfCounter, 10}

NoCall == [op |-> "init", raised |-> FALSE, open0 |-> FALSE, size0 |-> 0, ret |-> 0]

TimerInit ==
    /\ start_time = None
    /\ stop_time = None
    /\ lap_time = None
    /\ sink_max_size \in InitSizes
    /\ max_perf_counter \in Targets
    /\ now = 0
    /\ lap_open = FALSE
    /\ calls = 0
    /\ last = NoCall

Called(op, raised, ret) ==
    [op |-> op, raised |-> raised, open0 |-> lap_open, size0 |-> sink_max_size,
     ret |-> ret]

\* PerfTimer.start
StartClearsLap ==
    \E d \in Advance :
        /\ now + d <= MaxNow
        /\ IF start_time # None
             THEN /\ last' = Called("start", TRUE, 0)
                  /\ UNCHANGED <<start_time, lap_time, now, lap_open>>
             ELSE /\ start_time' = now + d
                  /\ lap_time' = None
                  /\ now' = now + d
                  /\ lap_open' = TRUE
                  /\ last' = Called("start", FALSE, 0)
        /\ UNCHANGED <<stop_time, sink_max_size, max_perf_counter, calls>>
        /\ UNCHANGED <<mapperVars, conformVars, sinkVars, targetVars>>

StartTruthy ==
    \E d \in Advance :
        /\ now + d <= MaxNow
        /\ IF start_time # None /\ start_time # 0
             THEN /\ last' = Called("start", TRUE, 0)
                  /\ UNCHANGED <<start_time, now, lap_open>>
             ELSE /\ start_time' = now + d
                  /\ now' = now + d
                  /\ lap_open' = TRUE
                  /\ last' = Called("start", FALSE, 0)
        /\ UNCHANGED <<stop_time, lap_time, sink_max_size, max_perf_counter, calls>>
        /\ UNCHANGED <<mapperVars, conformVars, sinkVars, targetVars>>

Start ==
    \E d \in Advance :
        /\ now + d <= MaxNow
        /\ IF start_time # None
             THEN \* raise PerfTimerError("Timer is running...")
                  /\ last' = Called("start", TRUE, 0)
                  /\ UNCHANGED <<start_time, now, lap_open>>
             ELSE /\ start_time' = now + d
                  /\ now' = now + d
                  /\ lap_open' = TRUE
                  /\ last' = Called("start", FALSE, 0)
        /\ UNCHANGED <<stop_time, lap_time, sink_max_size, max_perf_counter, calls>>
        /\ UNCHANGED <<mapperVars, conformVars, sinkVars, targetVars>>

\* PerfTimer.stop
Stop ==
    \E d \in Advance :
        /\ now + d <= MaxNow
        /\ IF start_time = None
             THEN \* raise PerfTimerError("Timer is not running...")
                  /\ last' = Called("stop", TRUE, 0)
                  /\ UNCHANGED <<start_time, stop_time, lap_time, now, lap_open>>
             ELSE /\ stop_time' = now + d
                  /\ lap_time' = (now + d) - start_time
                  /\ start_time' = None
                  /\ now' = now + d
                  /\ lap_open' = FALSE
                  /\ last' = Called("stop", FALSE, 0)
        /\ UNCHANGED <<sink_max_size, max_perf_counter, calls>>
        /\ UNCHANGED <<mapperVars, conformVars, sinkVars, targetVars>>

\* BatchPerfTimer.perf_diff returns None unless `if self._lap_time:` is truthy.
HasPerfDiff == lap_time # None /\ lap_time # 0
perf_diff == max_perf_counter - lap_time

\* perf_diff < perf_diff_allowed_min, with perf_diff_allowed_min = -1.0*(target*0.33)
BelowAllowedMin == 100 * perf_diff < -(33 * max_perf_counter)
\* perf_diff >= perf_diff_allowed_max, with perf_diff_allowed_max = target*0.75
AtOrAboveAllowedMax == 100 * perf_diff >= 75 * max_perf_counter

\* The `if ... if ... elif ... elif` ladder of the shrink branch.
ShrinkCorrectionThousand(size, correction) ==
    LET c1 == IF size >= 15000 THEN -5000 ELSE correction
    IN  IF size >= 10000 THEN -1000
        ELSE IF size >= 1000 THEN -1000
        ELSE IF size > 10 THEN 10
        ELSE c1

ShrinkCorrection(size, correction) ==
    LET c1 == IF size >= 15000 THEN -5000 ELSE correction
    IN  IF size >= 10000 THEN -1000
        ELSE IF size >= 1000 THEN -100
        ELSE IF size > 10 THEN 10
        ELSE c1

\* The `if ... if ... elif ... elif` ladder of the grow branch.
GrowCorrectionHundred(size, correction) ==
    LET c1 == IF size >= 10000 THEN 10000 ELSE correction
    IN  IF size >= 1000 THEN 100
        ELSE IF size >= 100 THEN 100
        ELSE IF size >= 10 THEN 10
        ELSE c1

GrowCorrection(size, correction) ==
    LET c1 == IF size >= 10000 THEN 10000 ELSE correction
    IN  IF size >= 1000 THEN 1000
        ELSE IF size >= 100 THEN 100
        ELSE IF size >= 10 THEN 10
        ELSE c1

CorrectionAlwaysShrink ==
    ShrinkCorrection(sink_max_size, 0)

Correction ==
    LET c1 == IF BelowAllowedMin THEN ShrinkCorrection(sink_max_size, 0) ELSE 0
    IN  IF AtOrAboveAllowedMax /\ sink_max_size < SINK_MAX_SIZE_CELING
          THEN GrowCorrection(sink_max_size, c1)
          ELSE c1

\* BatchPerfTimer.counter_based_max_size
CounterBasedMaxSize ==
    /\ calls < MaxCalls
    /\ calls' = calls + 1
    /\ IF ~HasPerfDiff
         THEN \* perf_diff is None: `None < float` raises TypeError
              /\ last' = Called("counter", TRUE, 0)
              /\ UNCHANGED sink_max_size
         ELSE /\ sink_max_size' = sink_max_size + Correction
              /\ last' = Called("counter", FALSE, sink_max_size + Correction)
    /\ UNCHANGED <<start_time, stop_time, lap_time, max_perf_counter, now, lap_open>>
    /\ UNCHANGED <<mapperVars, conformVars, sinkVars, targetVars>>

(***************************************************************************)
(* sinks.py: the type mapper                                               *)
(*                                                                         *)
(* A JSON-schema number is carried as the characters of its Python str()   *)
(* rendering (the mapper reads str(maximum)); an absent bound is None,     *)
(* whose rendering is "None".  Two bounds are equal when their renderings  *)
(* are.  An absent format / contentMediaType / contentEncoding is "None",  *)
(* an absent maxLength is 0 (`if length:` treats both alike).              *)
(***************************************************************************)

MSSQL_BIGINT_MIN == <<"-","9","2","2","3","3","7","2","0","3","6","8","5","4","7","7","5","8","0","8">>
MSSQL_BIGINT_MAX == <<"9","2","2","3","3","7","2","0","3","6","8","5","4","7","7","5","8","0","7">>
MSSQL_INT_MIN == <<"-","2","1","4","7","4","8","3","6","4","8">>
MSSQL_INT_MAX == <<"2","1","4","7","4","8","3","6","4","7">>
MSSQL_SMALLINT_MIN == <<"-","3","2","7","6","8">>
MSSQL_SMALLINT_MAX == <<"3","2","7","6","7">>
MSSQL_TINYINT_MIN == <<"0">>
MSSQL_TINYINT_MAX == <<"2","5","5">>
MSSQL_MONEY_MIN == <<"-","9","2","2","3","3","7","2","0","3","6","8","5","4","7","7",".","6">>
MSSQL_MONEY_MAX == <<"9","2","2","3","3","7","2","0","3","6","8","5","4","7","7",".","6">>
MSSQL_SMALLMONEY_MIN == <<"-","2","1","4","7","4","8",".","3","6","4","8">>
MSSQL_SMALLMONEY_MAX == <<"2","1","4","7","4","8",".","3","6","4","7">>
MSSQL_FLOAT_MIN == <<"-","1",".","7","9","E","+","3","0","8">>
MSSQL_FLOAT_MAX == <<"1",".","7","9","E","+","3","0","8">>
MSSQL_REAL_MIN == <<"-","3",".","4","0","E","+","3","8">>
MSSQL_REAL_MAX == <<"3",".","4","0","E","+","3","8">>

NoneStr == <<"N","o","n","e">>          \* str(None)

\* ---- Python str methods on character sequences (0-based indices) ----

\* s.count(c)
RECURSIVE StrCount(_, _)
StrCount(s, c) ==
    IF s = <<>> THEN 0
    ELSE (IF Head(s) = c THEN 1 ELSE 0) + StrCount(Tail(s), c)

\* s.find(c): lowest index of c, -1 when absent
RECURSIVE FindFrom(_, _, _)
FindFrom(s, c, i) ==
    IF i > Len(s) THEN -1
    ELSE IF s[i] = c THEN i - 1
    ELSE FindFrom(s, c, i + 1)

StrFind(s, c) == FindFrom(s, c, 1)

\* s.rfind(c): highest index of c, -1 when absent
RECURSIVE RFindFrom(_, _, _)
RFindFrom(s, c, i) ==
    IF i < 1 THEN -1
    ELSE IF s[i] = c THEN i - 1
    ELSE RFindFrom(s, c, i - 1)

StrRFind(s, c) == RFindFrom(s, c, Len(s))

\* s.lower(), on the letters a rendering of a number (or of None) can hold
LowerChar(c) ==
    IF c = "E" THEN "e" ELSE IF c = "N" THEN "n" ELSE c

StrLower(s) == [i \in 1..Len(s) |-> LowerChar(s[i])]

\* "e+" in s
ContainsEPlus(s) ==
    \E i \in 1..(Len(s) - 1) : s[i] = "e" /\ s[i + 1] = "+"

DigitValue(c) ==
    CASE c = "0" -> 0 [] c = "1" -> 1 [] c = "2" -> 2 [] c = "3" -> 3
      [] c = "4" -> 4 [] c = "5" -> 5 [] c = "6" -> 6 [] c = "7" -> 7
      [] c = "8" -> 8 [] c = "9" -> 9

\* int(s) for s = "+" followed by decimal digits
RECURSIVE DigitsValue(_, _)
DigitsValue(s, acc) ==
    IF s = <<>> THEN acc
    ELSE DigitsValue(Tail(s), 10 * acc + DigitValue(Head(s)))

ParseInt(s) ==
    IF Head(s) = "+" THEN DigitsValue(Tail(s), 0) ELSE DigitsValue(s, 0)

\* s[i:] with a 0-based start
SliceFrom(s, i) == SubSeq(s, i + 1, Len(s))

\* ---- column types ----

SqlType(name, args) == [kind |-> "type", name |-> name, args |-> args]
Raised(name) == [kind |-> "raise", name |-> name, args |-> <<>>]
NotCalled == [kind |-> "none", name |-> "", args |-> <<>>]

\* SQLConnector.to_sql_type of the SDK: the default mapper, a collaborator.
\* It returns some type for every schema; which one is its business.
SdkDefaultType == SqlType("SDK_DEFAULT", <<>>)

\* PostgresConnector.org_to_sql_type
OrgToSqlType(js) ==
    IF js.format = "date-time" THEN SqlType("TIMESTAMP", <<>>)
    ELSE SdkDefaultType

\* `if length: T(length=length) else T()`
Sized(name, length) ==
    IF length # 0 THEN SqlType(name, <<length>>) ELSE SqlType(name, <<>>)

HdString(js) ==
    IF js.format = "date" THEN SqlType("DATE", <<>>)
    ELSE IF js.format = "time" THEN SqlType("TIME", <<>>)
    ELSE IF js.format = "date-time" THEN SqlType("TIMESTAMP", <<>>)
    ELSE IF js.format = "uuid" THEN SqlType("UUID", <<>>)
    ELSE IF js.contentMediaType = "application/xml" THEN SqlType("TEXT", <<>>)
    ELSE IF js.contentEncoding = "base64" THEN Sized("BYTEA", js.maxLength)
    ELSE Sized("VARCHAR", js.maxLength)

HdIntegerEitherEnd(js) ==
    IF js.minimum = MSSQL_BIGINT_MIN \/ js.maximum = MSSQL_BIGINT_MAX
      THEN SqlType("BIGINT", <<>>)
    ELSE IF js.minimum = MSSQL_INT_MIN \/ js.maximum = MSSQL_INT_MAX
      THEN SqlType("INTEGER", <<>>)
    ELSE IF js.minimum = MSSQL_SMALLINT_MIN \/ js.maximum = MSSQL_SMALLINT_MAX
      THEN SqlType("SMALLINT", <<>>)
    ELSE IF js.minimum = MSSQL_TINYINT_MIN \/ js.maximum = MSSQL_TINYINT_MAX
      THEN SqlType("SMALLINT", <<>>)
    ELSE SqlType("NUMERIC", <<StrCount(js.maximum, "9"), 0>>)

HdInteger(js) ==
    IF js.minimum = MSSQL_BIGINT_MIN /\ js.maximum = MSSQL_BIGINT_MAX
      THEN SqlType("BIGINT", <<>>)
    ELSE IF js.minimum = MSSQL_INT_MIN /\ js.maximum = MSSQL_INT_MAX
      THEN SqlType("INTEGER", <<>>)
    ELSE IF js.minimum = MSSQL_SMALLINT_MIN /\ js.maximum = MSSQL_SMALLINT_MAX
      THEN SqlType("SMALLINT", <<>>)
    ELSE IF js.minimum = MSSQL_TINYINT_MIN /\ js.maximum = MSSQL_TINYINT_MAX
      THEN SqlType("SMALLINT", <<>>)
    ELSE SqlType("NUMERIC", <<StrCount(js.maximum, "9"), 0>>)

\* the `"e+" not in str(maximum).lower()` branch
PlainNumericOneBased(maximum) ==
    LET precision == StrCount(maximum, "9")
        scale == precision - (StrFind(maximum, ".") + 1)
    IN  SqlType("NUMERIC", <<precision, scale>>)

PlainNumeric(maximum) ==
    LET precision == StrCount(maximum, "9")
        scale == precision - StrRFind(maximum, ".")
    IN  SqlType("NUMERIC", <<precision, scale>>)

\* the scientific-notation branch
ExponentNumeric(maximum) ==
    LET precision_start == StrRFind(maximum, "+")
        precision == ParseInt(SliceFrom(maximum, precision_start))
        scale_start == StrFind(maximum, ".") + 1
        scale_end == StrFind(StrLower(maximum), "e")
        scale == scale_end - scale_start
    IN  SqlType("NUMERIC", <<precision, scale>>)

HdNumber(js) ==
    IF js.minimum = MSSQL_MONEY_MIN /\ js.maximum = MSSQL_MONEY_MAX
      THEN SqlType("MONEY", <<>>)
    ELSE IF js.minimum = MSSQL_SMALLMONEY_MIN /\ js.maximum = MSSQL_SMALLMONEY_MAX
      THEN SqlType("MONEY", <<>>)
    ELSE IF js.minimum = MSSQL_FLOAT_MIN /\ js.maximum = MSSQL_FLOAT_MAX
      THEN SqlType("FLOAT", <<>>)
    ELSE IF js.minimum = MSSQL_REAL_MIN /\ js.maximum = MSSQL_REAL_MAX
      THEN SqlType("REAL", <<>>)
    ELSE IF ~ContainsEPlus(StrLower(js.maximum))
      THEN PlainNumeric(js.maximum)
    ELSE ExponentNumeric(js.maximum)

\* PostgresConnector.hd_to_sql_type.  jsonschema_type.get("type") is None when
\* the schema has no "type", and `"string" in None` raises TypeError.
HdToSqlType(js) ==
    IF ~js.hasType THEN Raised("TypeError")
    ELSE IF "string" \in js.type THEN HdString(js)
    ELSE IF "boolean" \in js.type THEN SqlType("BOOLEAN", <<>>)
    ELSE IF "integer" \in js.type THEN HdInteger(js)
    ELSE IF "number" \in js.type THEN HdNumber(js)
    ELSE SdkDefaultType

\* PostgresConnector.to_sql_type: config.get("hd_jsonschema_types", False)
ToSqlType(hd_jsonschema_types, js) ==
    IF hd_jsonschema_types THEN HdToSqlType(js) ELSE OrgToSqlType(js)

(***************************************************************************)
(* The schema fragments the mapper is applied to.                          *)
(***************************************************************************)

JsonSchema(hasType, type, format, media, encoding, maxLength, minimum, maximum) ==
    [hasType |-> hasType, type |-> type, format |-> format,
     contentMediaType |-> media, contentEncoding |-> encoding,
     maxLength |-> maxLength, minimum |-> minimum, maximum |-> maximum]

\* Renderings of the bounds a schema may declare.
Minimums ==
    { NoneStr,
      MSSQL_BIGINT_MIN, MSSQL_INT_MIN, MSSQL_SMALLINT_MIN, MSSQL_TINYINT_MIN,
      MSSQL_MONEY_MIN, MSSQL_SMALLMONEY_MIN, MSSQL_FLOAT_MIN, MSSQL_REAL_MIN,
      <<"-","9","9">>, <<"-","9","9",".","9","9">> }

Maximums ==
    { NoneStr,
      MSSQL_BIGINT_MAX, MSSQL_INT_MAX, MSSQL_SMALLINT_MAX, MSSQL_TINYINT_MAX,
      MSSQL_MONEY_MAX, MSSQL_SMALLMONEY_MAX, MSSQL_FLOAT_MAX, MSSQL_REAL_MAX,
      <<"9","9">>, <<"9","9","9","9","9","9">>, <<"1","2","3","4","5">>,
      <<"9","9",".","9","9">>, <<"9","9","9","9",".","9","9","9">>,
      <<"1","2",".","9">>, <<"0",".","5">>,
      <<"1","E","+","3">>, <<"9",".","9","9","E","+","1","5">>,
      <<"1","e","+","2","2">>, <<"1","E","-","7">>,
      <<"1",".","5","e","-","0","7">> }

NumericTypes ==
    { {"integer"}, {"integer", "null"}, {"number"}, {"number", "null"},
      {"integer", "number"}, {"boolean", "integer"}, {"string", "number"} }

StringTypes == { {"string"}, {"string", "null"}, {"boolean", "string"} }

OtherTypes == { {"boolean"}, {"object"}, {"array", "null"}, {"null"}, {} }

Formats == {"None", "date", "time", "date-time", "uuid", "email"}
MediaTypes == {"None", "application/xml"}
Encodings == {"None", "base64"}
MaxLengths == {0, 50}

NumericFields ==
    { JsonSchema(TRUE, t, "None", "None", "None", 0, lo, hi) :
        t \in NumericTypes, lo \in Minimums, hi \in Maximums }

StringFields ==
    { JsonSchema(TRUE, t, f, m, e, n, NoneStr, NoneStr) :
        t \in StringTypes, f \in Formats, m \in MediaTypes, e \in Encodings,
        n \in MaxLengths }

OtherFields ==
    { JsonSchema(TRUE, t, f, "None", "None", 0, NoneStr, NoneStr) :
        t \in OtherTypes, f \in {"None", "date-time"} }

\* A schema without "type" at all: {}, {"anyOf": [...]}, {"format": ...}
UntypedFields ==
    { JsonSchema(FALSE, {}, f, "None", "None", 0, NoneStr, hi) :
        f \in {"None", "date-time"}, hi \in {NoneStr, <<"9","9">>} }

Fields == NumericFields \cup StringFields \cup OtherFields \cup UntypedFields

NoField == JsonSchema(FALSE, {}, "None", "None", "None", 0, NoneStr, NoneStr)

NoResult == [by |-> "none", out |-> NotCalled]
NoTable == [kind |-> "none", name |-> "", columns |-> <<>>]

MapperIdle ==
    /\ jsonschema_type = NoField
    /\ sql_type = NoResult

TimerIdle ==
    /\ start_time = None
    /\ stop_time = None
    /\ lap_time = None
    /\ sink_max_size = 0
    /\ max_perf_counter = DefaultMaxPerfCounter
    /\ now = 0
    /\ lap_open = FALSE
    /\ calls = 0
    /\ last = NoCall

MapperInit ==
    /\ jsonschema_type \in Fields
    /\ sql_type = NoResult

\* a call of hd_to_sql_type(jsonschema_type)
CallHdToSqlType ==
    /\ sql_type.by = "none"
    /\ sql_type' = [by |-> "hd", out |-> HdToSqlType(jsonschema_type)]
    /\ UNCHANGED <<jsonschema_type, plan, table, timerVars, conformVars, sinkVars, targetVars>>

\* a call of org_to_sql_type(jsonschema_type)
CallOrgToSqlType ==
    /\ sql_type.by = "none"
    /\ sql_type' = [by |-> "org", out |-> OrgToSqlType(jsonschema_type)]
    /\ UNCHANGED <<jsonschema_type, plan, table, timerVars, conformVars, sinkVars, targetVars>>

(***************************************************************************)
(* sinks.py: the table planner, PostgresConnector.create_empty_table       *)
(***************************************************************************)

MaxProps == 2     \* bound: properties per schema

PropertyNames == {"id", "name", "note"}

IdField == JsonSchema(TRUE, {"integer"}, "None", "None", "None", 0,
                      MSSQL_INT_MIN, MSSQL_INT_MAX)
NameField == JsonSchema(TRUE, {"string"}, "None", "None", "None", 50,
                        NoneStr, NoneStr)

PlanFields ==
    { IdField, NameField,
      JsonSchema(TRUE, {"string", "null"}, "date-time", "None", "None", 0, NoneStr, NoneStr),
      JsonSchema(TRUE, {"number"}, "None", "None", "None", 0, NoneStr, <<"9","9",".","9","9">>),
      JsonSchema(TRUE, {"object"}, "None", "None", "None", 0, NoneStr, NoneStr),
      JsonSchema(FALSE, {}, "None", "None", "None", 0, NoneStr, NoneStr) }

Property(name, js) == [name |-> name, js |-> js]

\* A "properties" dict: its items in insertion order, keys distinct.
PropertyMaps ==
    UNION { { p \in [1..n -> [name : PropertyNames, js : PlanFields]] :
                \A i, j \in 1..n : i # j => p[i].name # p[j].name } :
            n \in 0..MaxProps }

\* The arguments of create_empty_table, and config["hd_jsonschema_types"].
Plans ==
    [ hasProperties : BOOLEAN,
      properties : PropertyMaps,
      primary_keys : SUBSET PropertyNames,
      as_temp_table : BOOLEAN,
      hd_jsonschema_types : BOOLEAN ]

NoPlan == [hasProperties |-> FALSE, properties |-> <<>>, primary_keys |-> {},
           as_temp_table |-> FALSE, hd_jsonschema_types |-> FALSE]

PlannerIdle ==
    /\ plan = NoPlan
    /\ table = NoTable

PlannerInit ==
    /\ plan \in { p \in Plans : p.hasProperties \/ p.properties = <<>> }
    /\ table = NoTable

\* sa.Column(property_name, type, primary_key=True, autoincrement=False) for a
\* key, sa.Column(property_name, type) otherwise (primary_key=False,
\* autoincrement="auto" are SQLAlchemy's defaults).
Column(p, primary_keys, hd) ==
    IF p.name \in primary_keys
      THEN [name |-> p.name, type |-> ToSqlType(hd, p.js),
            primary_key |-> TRUE, autoincrement |-> "False"]
      ELSE [name |-> p.name, type |-> ToSqlType(hd, p.js),
            primary_key |-> FALSE, autoincrement |-> "auto"]

Columns(pl) ==
    [i \in 1..Len(pl.properties) |->
        Column(pl.properties[i], pl.primary_keys, pl.hd_jsonschema_types)]

\* The first property whose to_sql_type call raises, 0 when none does.
FirstRaising(cols) ==
    IF \E i \in 1..Len(cols) : cols[i].type.kind = "raise"
      THEN CHOOSE i \in 1..Len(cols) :
             /\ cols[i].type.kind = "raise"
             /\ \A j \in 1..(i - 1) : cols[j].type.kind # "raise"
      ELSE 0

CreateEmptyTableNeedsColumns ==
    /\ table.kind = "none"
    /\ table' =
         IF plan.as_temp_table
           THEN [kind |-> "raise", name |-> "NotImplementedError", columns |-> <<>>]
         ELSE IF ~plan.hasProperties \/ plan.properties = <<>>
           THEN [kind |-> "raise", name |-> "RuntimeError", columns |-> <<>>]
         ELSE LET cols == Columns(plan)
                  k == FirstRaising(cols)
              IN  IF k # 0
                    THEN [kind |-> "raise", name |-> cols[k].type.name,
                          columns |-> <<>>]
                    ELSE [kind |-> "table", name |-> "created", columns |-> cols]
    /\ UNCHANGED <<plan, jsonschema_type, sql_type, timerVars, conformVars, sinkVars, targetVars>>

CreateEmptyTable ==
    /\ table.kind = "none"
    /\ table' =
         IF plan.as_temp_table
           THEN [kind |-> "raise", name |-> "NotImplementedError", columns |-> <<>>]
         ELSE IF ~plan.hasProperties
           THEN [kind |-> "raise", name |-> "RuntimeError", columns |-> <<>>]
         ELSE LET cols == Columns(plan)
                  k == FirstRaising(cols)
              IN  IF k # 0
                    THEN [kind |-> "raise", name |-> cols[k].type.name,
                          columns |-> <<>>]
                    ELSE [kind |-> "table", name |-> "created", columns |-> cols]
    /\ UNCHANGED <<plan, jsonschema_type, sql_type, timerVars, conformVars, sinkVars, targetVars>>

(***************************************************************************)
(* sinks.py: the record conformer, PostgresSink.preprocess_record          *)
(*                                                                         *)
(* A value is None, an int, a str or a bytes; a str or bytes is carried as *)
(* the sequence of its code points / byte values.                          *)
(***************************************************************************)

MaxFields == 2         \* bound: fields per record
MaxConformCalls == 2   \* bound: preprocess_record calls on one record

NoneValue == [kind |-> "none", v |-> <<>>]
IntValue == [kind |-> "int", v |-> <<5>>]
Str(v) == [kind |-> "str", v |-> v]
Bytes(v) == [kind |-> "bytes", v |-> v]

\* "\x00" in value
HasNul(v) == \E i \in 1..Len(v) : v[i] = 0

\* value.replace("\x00", "")
RECURSIVE StripNul(_)
StripNul(v) ==
    IF v = <<>> THEN <<>>
    ELSE IF Head(v) = 0 THEN StripNul(Tail(v))
    ELSE <<Head(v)>> \o StripNul(Tail(v))

ReplaceFirstNul(v) ==
    IF HasNul(v)
      THEN LET k == CHOOSE i \in 1..Len(v) :
                      v[i] = 0 /\ \A j \in 1..(i - 1) : v[j] # 0
           IN  SubSeq(v, 1, k - 1) \o SubSeq(v, k + 1, Len(v))
      ELSE v

\* The base64 alphabet: the 6-bit value of a character, 64 for any other.
B64Value(c) ==
    IF c >= 65 /\ c <= 90 THEN c - 65             \* A-Z
    ELSE IF c >= 97 /\ c <= 122 THEN c - 97 + 26  \* a-z
    ELSE IF c >= 48 /\ c <= 57 THEN c - 48 + 52   \* 0-9
    ELSE IF c = 43 THEN 62                        \* +
    ELSE IF c = 47 THEN 63                        \* /
    ELSE 64

\* base64.b64decode(value) with validate=False (binascii.a2b_base64): characters
\* outside the alphabet are skipped, a pad sequence that completes a quad ends
\* the data, and data that ends inside a quad is an error.
RECURSIVE B64Scan(_, _, _, _, _, _)
B64Scan(s, i, quad_pos, leftchar, pads, out) ==
    IF i > Len(s)
      THEN IF quad_pos = 0 THEN [ok |-> TRUE, v |-> out]
                           ELSE [ok |-> FALSE, v |-> <<>>]
    ELSE IF s[i] = 61                              \* '='
      THEN IF quad_pos >= 2 /\ quad_pos + pads + 1 >= 4
             THEN [ok |-> TRUE, v |-> out]
             ELSE B64Scan(s, i + 1, quad_pos, leftchar,
                          IF quad_pos >= 2 THEN pads + 1 ELSE pads, out)
    ELSE IF B64Value(s[i]) >= 64
      THEN B64Scan(s, i + 1, quad_pos, leftchar, pads, out)
    ELSE LET c == B64Value(s[i])
         IN  CASE quad_pos = 0 -> B64Scan(s, i + 1, 1, c, 0, out)
               [] quad_pos = 1 ->
                    B64Scan(s, i + 1, 2, c % 16, 0,
                            Append(out, leftchar * 4 + (c \div 16)))
               [] quad_pos = 2 ->
                    B64Scan(s, i + 1, 3, c % 4, 0,
                            Append(out, leftchar * 16 + (c \div 4)))
               [] quad_pos = 3 ->
                    B64Scan(s, i + 1, 0, 0, 0,
                            Append(out, leftchar * 64 + c))

\* b64decode(value): the decoded bytes, or the exception raised.
B64Decode(value) ==
    IF value.kind \notin {"str", "bytes"}
      THEN [raised |-> "TypeError", value |-> value]
    ELSE LET r == B64Scan(value.v, 1, 0, 0, 0, <<>>)
         IN  IF r.ok THEN [raised |-> "", value |-> Bytes(r.v)]
                     ELSE [raised |-> "binascii.Error", value |-> value]

SetValue(rec, i, value) == [rec EXCEPT ![i].value = value]

\* The body of `for key, value in record.items()` from item i on.  `value` is
\* the item as the iteration read it; record.update() writes into the dict.
RECURSIVE ConformFromStripFirst(_, _, _, _)
ConformFromStripFirst(rec, props, i, removed) ==
    IF i > Len(rec) THEN [rec |-> rec, removed |-> removed, raised |-> ""]
    ELSE LET value == rec[i].value
         IN  IF value.kind = "none"
               THEN ConformFromStripFirst(rec, props, i + 1, removed)
             ELSE
               LET nul == value.kind = "str" /\ HasNul(value.v)
                   rec1 == IF nul THEN SetValue(rec, i, Str(ReplaceFirstNul(value.v)))
                                  ELSE rec
                   removed1 == removed \/ nul
               IN  IF props[rec[i].key] = "absent"
                     THEN [rec |-> rec1, removed |-> removed1,
                           raised |-> "AttributeError"]
                   ELSE IF props[rec[i].key] = "base64"
                     THEN LET d == B64Decode(value)
                          IN  IF d.raised # ""
                                THEN [rec |-> rec1, removed |-> removed1,
                                      raised |-> d.raised]
                                ELSE ConformFromStripFirst(SetValue(rec1, i, d.value),
                                                 props, i + 1, removed1)
                   ELSE ConformFromStripFirst(rec1, props, i + 1, removed1)

RECURSIVE ConformFrom(_, _, _, _)
ConformFrom(rec, props, i, removed) ==
    IF i > Len(rec) THEN [rec |-> rec, removed |-> removed, raised |-> ""]
    ELSE LET value == rec[i].value
         IN  IF value.kind = "none"
               THEN ConformFrom(rec, props, i + 1, removed)
             ELSE
               LET nul == value.kind = "str" /\ HasNul(value.v)
                   rec1 == IF nul THEN SetValue(rec, i, Str(StripNul(value.v)))
                                  ELSE rec
                   removed1 == removed \/ nul
               IN  \* property_schema = properties.get(key) is None for a key
                   \* the schema does not declare: None.get raises
                   IF props[rec[i].key] = "absent"
                     THEN [rec |-> rec1, removed |-> removed1,
                           raised |-> "AttributeError"]
                   ELSE IF props[rec[i].key] = "base64"
                     THEN LET d == B64Decode(value)
                          IN  IF d.raised # ""
                                THEN [rec |-> rec1, removed |-> removed1,
                                      raised |-> d.raised]
                                ELSE ConformFrom(SetValue(rec1, i, d.value),
                                                 props, i + 1, removed1)
                   ELSE ConformFrom(rec1, props, i + 1, removed1)

FieldKeys == {"a", "b", "c"}

FieldValues ==
    { NoneValue, IntValue,
      Str(<<104, 105>>),                          \* "hi"
      Str(<<104, 0, 105, 0>>),                    \* "h\x00i\x00"
      Str(<<65, 65, 65, 65>>),                    \* "AAAA"     -> b"\x00\x00\x00"
      Str(<<97, 71, 107, 61>>),                   \* "aGk="     -> b"hi"
      Str(<<89, 85, 100, 114, 80, 81, 61, 61>>),  \* "YUdrPQ==" -> b"aGk="
      Str(<<65>>),                                \* "A"        not base64
      Str(<<97, 71, 0, 107, 61>>) }               \* "aG\x00k="

\* A record dict: its items in insertion order, keys distinct.
Records ==
    UNION { { r \in [1..n -> [key : FieldKeys, value : FieldValues]] :
                \A i, j \in 1..n : i # j => r[i].key # r[j].key } :
            n \in 1..MaxFields }

\* self.schema.get("properties"): for each key, whether the schema declares it,
\* and if so whether with contentEncoding == "base64".  (A schema without
\* "properties" behaves as one that declares no key: None.get raises too.)
PropertySchemas == [FieldKeys -> {"absent", "plain", "base64"}]

NoConform == [calls |-> 0, raised |-> "", record0 |-> <<>>, record1 |-> <<>>,
              raised1 |-> "", log0 |-> 0]

ConformIdle ==
    /\ record = <<>>
    /\ properties = [k \in FieldKeys |-> "absent"]
    /\ log_count = 0
    /\ conf = NoConform

ConformInit ==
    /\ record \in Records
    /\ properties \in PropertySchemas
    /\ log_count = 0
    /\ conf = NoConform

\* PostgresSink.preprocess_record(record, context)
PreprocessRecord ==
    /\ conf.calls < MaxConformCalls
    /\ LET r == ConformFrom(record, properties, 1, FALSE)
       IN  /\ record' = r.rec
           /\ log_count' = IF r.raised = "" /\ r.removed THEN log_count + 1
                                                        ELSE log_count
           /\ conf' = [calls |-> conf.calls + 1,
                       raised |-> r.raised,
                       record0 |-> record,
                       record1 |-> IF conf.calls = 0 THEN r.rec ELSE conf.record1,
                       raised1 |-> IF conf.calls = 0 THEN r.raised ELSE conf.raised1,
                       log0 |-> log_count]
    /\ UNCHANGED <<properties, timerVars, mapperVars, sinkVars, targetVars>>

(***************************************************************************)
(* sinks.py: the flush of one sink, PostgresSink.bulk_insert_records       *)
(*                                                                         *)
(* SQLAlchemy and the database are collaborators: the table autoload       *)
(* answers from `catalog`, building a statement succeeds, and executing it *)
(* either succeeds or raises one of sqlalchemy.exc's errors.               *)
(***************************************************************************)

MaxFlushes == 3   \* bound: bulk_insert_records calls on one sink
MaxRecords == 2   \* bound: records in one batch

TableNames == {"public.users", "public.orders"}
KeySets == {{}, {"id"}}

\* singer_sdk TargetLoadMethods
APPEND_ONLY == "append-only"
UPSERT == "upsert"
OVERWRITE == "overwrite"
LoadMethods == {APPEND_ONLY, UPSERT, OVERWRITE}

\* _target_table: sa.Table = None
NoneTable == [kind |-> "none", name |-> "", primary_key |-> {}]
\* _insert_statement: postgresql.Insert = None
NoneStatement == [kind |-> "none", table |-> "", constraint |-> {}]

\* sa.Table(table_name, meta, autoload_with=engine, schema=schema_name)
Autoload(full_table_name) ==
    [kind |-> "table", name |-> full_table_name,
     primary_key |-> catalog[full_table_name]]

\* PostgresSink.set_insert_statement: all three statements are built, one is
\* kept.  A PrimaryKeyConstraint is truthy when it has columns.
SetInsertStatementAnyTable(tbl, method) ==
    LET insert_stmt == [kind |-> "insert", table |-> tbl.name, constraint |-> {}]
        upsert_stmt == [kind |-> "on_conflict_do_update", table |-> tbl.name,
                        constraint |-> tbl.primary_key]
    IN  IF method = UPSERT THEN upsert_stmt ELSE insert_stmt

SetInsertStatement(tbl, method) ==
    LET insert_stmt == [kind |-> "insert", table |-> tbl.name, constraint |-> {}]
        insert_stmt_skip == [kind |-> "on_conflict_do_nothing", table |-> tbl.name,
                             constraint |-> tbl.primary_key]
        upsert_stmt == [kind |-> "on_conflict_do_update", table |-> tbl.name,
                        constraint |-> tbl.primary_key]
    IN  IF method = UPSERT
          THEN IF tbl.primary_key # {} THEN upsert_stmt ELSE insert_stmt
          ELSE insert_stmt

\* What conn.execute() can do: return a result, or raise.  `sqla` says whether
\* the exception is an exc.SQLAlchemyError, `orig` whether the instance has an
\* `orig` attribute (StatementError and DBAPIError do; CompileError,
\* TimeoutError, ... do not).
Executed == [name |-> "ok", sqla |-> FALSE, orig |-> FALSE]
DBAPIError == [name |-> "DBAPIError", sqla |-> TRUE, orig |-> TRUE]
CompileError == [name |-> "CompileError", sqla |-> TRUE, orig |-> FALSE]
ExecOutcomes == {Executed, DBAPIError, CompileError}

NoFlush ==
    [calls |-> 0, introspections |-> 0, builds |-> 0, executions |-> 0,
     failures |-> 0, name |-> "", outcome |-> Executed, records |-> 0, ret |-> 0, raised |-> "",
     table0 |-> NoneTable, stmt0 |-> NoneStatement, executed |-> NoneStatement,
     exec0 |-> 0, log0 |-> 0]

SinkIdle ==
    /\ load_method = APPEND_ONLY
    /\ catalog = [n \in TableNames |-> {}]
    /\ target_table = NoneTable
    /\ insert_statement = NoneStatement
    /\ sink_log = 0
    /\ flushed = NoFlush

SinkInit ==
    /\ load_method \in LoadMethods
    /\ catalog \in [TableNames -> KeySets]
    /\ target_table = NoneTable
    /\ insert_statement = NoneStatement
    /\ sink_log = 0
    /\ flushed = NoFlush

\* `if self.target_table is None:`
NeedsTablePerName(full_table_name) ==
    target_table = NoneTable \/ target_table.name # full_table_name

NeedsTable(full_table_name) == target_table = NoneTable

\* PostgresSink.bulk_insert_records(full_table_name, schema, records)
BulkInsertRecords ==
    \E full_table_name \in TableNames, n \in 1..MaxRecords, e \in ExecOutcomes :
        LET introspect == NeedsTable(full_table_name)
            tbl == IF introspect THEN Autoload(full_table_name) ELSE target_table
            build == insert_statement = NoneStatement
            stmt == IF build THEN SetInsertStatement(tbl, load_method)
                    ELSE insert_statement
            \* the `except exc.SQLAlchemyError` handler
            caught == e # Executed /\ e.sqla
            keyError == caught /\ ~e.orig
            raised == IF e = Executed THEN ""
                      ELSE IF ~caught THEN e.name
                      ELSE IF keyError THEN "KeyError"
                      ELSE ""
        IN  /\ flushed.calls < MaxFlushes
            /\ target_table' = tbl
            /\ insert_statement' = stmt
            /\ sink_log' = IF caught /\ ~keyError THEN sink_log + 1 ELSE sink_log
            /\ flushed' =
                 [calls |-> flushed.calls + 1,
                  introspections |-> flushed.introspections + (IF introspect THEN 1 ELSE 0),
                  builds |-> flushed.builds + (IF build THEN 1 ELSE 0),
                  executions |-> flushed.executions + 1,
                  failures |-> flushed.failures + (IF e = Executed THEN 0 ELSE 1),
                  name |-> full_table_name, outcome |-> e, records |-> n,
                  ret |-> IF e = Executed THEN n ELSE 0,
                  raised |-> raised,
                  table0 |-> target_table, stmt0 |-> insert_statement,
                  executed |-> stmt,
                  exec0 |-> flushed.executions, log0 |-> sink_log]
            /\ UNCHANGED <<load_method, catalog>>
            /\ UNCHANGED <<timerVars, mapperVars, conformVars, targetVars>>

(***************************************************************************)
(* target.py: the sink registry, Targetpostgres.get_sink / add_sqlsink     *)
(*                                                                         *)
(* A sink is the object made by add_sqlsink; `id` is its identity (the     *)
(* n-th sink constructed).  A schema is an opaque dict compared by         *)
(* equality; key_properties is None or a list.  The sink class is the      *)
(* SDK's: its constructor keeps `key_properties or []`, it is truthy, and  *)
(* setup() is taken to succeed.                                            *)
(***************************************************************************)

MaxGets == 3   \* bound: get_sink calls per behaviour

StreamNames == {"users", "orders"}
NoneSchema == "None"
Schemas == {"{id}", "{id, name}"}

KeyNone == [none |-> TRUE, v |-> <<>>]
KeyList(v) == [none |-> FALSE, v |-> v]
KeyProperties == {KeyNone, KeyList(<<>>), KeyList(<<"id">>)}

\* `key_properties or []`
OrEmptyList(key_properties) ==
    IF key_properties.none THEN KeyList(<<>>) ELSE key_properties

NoSink == [id |-> 0, stream_name |-> "", schema |-> NoneSchema,
           key_properties |-> KeyList(<<>>)]

\* sink_class(target=self, stream_name=..., schema=..., key_properties=..., ...)
NewSink(id, stream_name, schema, key_properties) ==
    [id |-> id, stream_name |-> stream_name, schema |-> schema,
     key_properties |-> OrEmptyList(key_properties)]

NoGet ==
    [calls |-> 0, created |-> 0, stream_name |-> "", schema |-> NoneSchema,
     key_properties |-> KeyNone, ret |-> NoSink, raised |-> "",
     active0 |-> [s \in StreamNames |-> NoSink], clear0 |-> <<>>]

TargetIdle ==
    /\ sinks_active = [s \in StreamNames |-> NoSink]
    /\ sinks_to_clear = <<>>
    /\ got = NoGet

\* A Target is constructed with no sinks.
TargetInit == TargetIdle

\* `existing_sink.schema != schema or existing_sink.key_properties != key_properties`
ChangedSchemaOnly(existing_sink, schema, key_properties) ==
    existing_sink.schema # schema

Changed(existing_sink, schema, key_properties) ==
    \/ existing_sink.schema # schema
    \/ existing_sink.key_properties # key_properties

\* Targetpostgres.get_sink(stream_name, schema=..., key_properties=...), with
\* the add_sqlsink it calls.
GetSink ==
    \E stream_name \in StreamNames, schema \in Schemas \cup {NoneSchema},
       key_properties \in KeyProperties :
        LET existing_sink == sinks_active[stream_name]
            sink == NewSink(got.created + 1, stream_name, schema, key_properties)
            called(created, ret, raised) ==
                [calls |-> got.calls + 1, created |-> created,
                 stream_name |-> stream_name, schema |-> schema,
                 key_properties |-> key_properties, ret |-> ret, raised |-> raised,
                 active0 |-> sinks_active, clear0 |-> sinks_to_clear]
        IN  /\ got.calls < MaxGets
            /\ IF schema = NoneSchema
                 THEN \* self._assert_sink_exists(stream_name)
                      /\ got' = IF existing_sink = NoSink
                                  THEN called(got.created, NoSink,
                                              "RecordsWithoutSchemaException")
                                  ELSE called(got.created, existing_sink, "")
                      /\ UNCHANGED <<sinks_active, sinks_to_clear>>
               ELSE IF existing_sink = NoSink
                 THEN /\ sinks_active' = [sinks_active EXCEPT ![stream_name] = sink]
                      /\ got' = called(got.created + 1, sink, "")
                      /\ UNCHANGED sinks_to_clear
               ELSE IF Changed(existing_sink, schema, key_properties)
                 THEN /\ sinks_to_clear' = Append(sinks_to_clear, existing_sink)
                      /\ sinks_active' = [sinks_active EXCEPT ![stream_name] = sink]
                      /\ got' = called(got.created + 1, sink, "")
               ELSE /\ got' = called(got.created, existing_sink, "")
                    /\ UNCHANGED <<sinks_active, sinks_to_clear>>
            /\ UNCHANGED <<timerVars, mapperVars, conformVars, sinkVars>>

(***************************************************************************)
(* The specifications                                                      *)
(***************************************************************************)

Init == TimerInit /\ MapperIdle /\ PlannerIdle /\ ConformIdle /\ SinkIdle /\ TargetIdle
Next ==
    \/ Start
    \/ Stop
    \/ CounterBasedMaxSize
Spec == Init /\ [][Next]_vars

InitMapper == TimerIdle /\ MapperInit /\ PlannerIdle /\ ConformIdle /\ SinkIdle /\ TargetIdle
NextMapper ==
    \/ CallHdToSqlType
    \/ CallOrgToSqlType
SpecMapper == InitMapper /\ [][NextMapper]_vars

InitPlanner == TimerIdle /\ MapperIdle /\ PlannerInit /\ ConformIdle /\ SinkIdle /\ TargetIdle
NextPlanner == CreateEmptyTable
SpecPlanner == InitPlanner /\ [][NextPlanner]_vars

InitConform == TimerIdle /\ MapperIdle /\ PlannerIdle /\ ConformInit /\ SinkIdle /\ TargetIdle
NextConform == PreprocessRecord
SpecConform == InitConform /\ [][NextConform]_vars

InitSink == TimerIdle /\ MapperIdle /\ PlannerIdle /\ ConformIdle /\ SinkInit /\ TargetIdle
NextSink == BulkInsertRecords
SpecSink == InitSink /\ [][NextSink]_vars

InitTarget ==
    TimerIdle /\ MapperIdle /\ PlannerIdle /\ ConformIdle /\ SinkIdle /\ TargetInit
NextTarget == GetSink
SpecTarget == InitTarget /\ [][NextTarget]_vars

(***************************************************************************)
(* Properties of the timer and the batch-size controller (Spec)            *)
(***************************************************************************)

\* C1: start() raises exactly when a lap is in progress (a successful start
\* with no successful stop after it) and stop() raises exactly when none is,
\* so successful calls alternate start, stop, start, stop and the timer holds
\* a start time exactly while the one lap is open.
C1_StartStopAlternate ==
    /\ last.op = "start" => (last.raised <=> last.open0)
    /\ last.op = "stop" => (last.raised <=> ~last.open0)
    /\ last.op \in {"start", "stop"} /\ ~last.raised =>
          (lap_open <=> last.op = "start")
    /\ lap_open <=> start_time # None

\* C1 witness: a stop() raised after a lap had been completed, i.e. after a
\* successful start and a successful stop.
C1_Witness ==
    /\ last.op = "stop"
    /\ last.raised
    /\ lap_time # None

\* The call the examples of the controller are about: counter_based_max_size()
\* returned, at threshold `size` before the call, with the given target and
\* last lap (both in ticks).
Adjusted(size, target, lap) ==
    /\ last.op = "counter"
    /\ ~last.raised
    /\ last.size0 = size
    /\ max_perf_counter = target
    /\ lap_time = lap

\* C2, as claimed: from threshold 5000 with a target of 1.0 s, after a lap of
\* 0.1 s counter_based_max_size returns 5100.
C2_Original ==
    Adjusted(5000, DefaultMaxPerfCounter, 2) =>
        last.ret = 5100 /\ sink_max_size = 5100

\* C2, amended: from threshold 5000 with a target of 1.0 s, after a lap of
\* 0.1 s counter_based_max_size returns 6000: the threshold grows by 1000.
C2_GrowsByThousand ==
    Adjusted(5000, DefaultMaxPerfCounter, 2) =>
        last.ret = 6000 /\ sink_max_size = 6000

\* C2 witness: that call has been made.
C2_Witness == Adjusted(5000, DefaultMaxPerfCounter, 2)

\* perfDiff = target - lap lies inside both dead-bands:
\* -0.33 * target <= perfDiff < 0.75 * target
InDeadBand ==
    /\ lap_time # None
    /\ -(33 * max_perf_counter) <= 100 * (max_perf_counter - lap_time)
    /\ 100 * (max_perf_counter - lap_time) < 75 * max_perf_counter

\* C3: whenever the last lap's perfDiff lies inside both dead-bands,
\* counter_based_max_size returns and leaves the threshold unchanged, whatever
\* the threshold is.
C3_DeadBandUnchanged ==
    last.op = "counter" /\ InDeadBand =>
        /\ ~last.raised
        /\ sink_max_size = last.size0
        /\ last.ret = last.size0

\* C3 witness: threshold 5000, target 1.0 s, lap 0.95 s.
C3_Witness == Adjusted(5000, DefaultMaxPerfCounter, 19) /\ sink_max_size = 5000

\* C4, as claimed: the threshold never exceeds the ceiling.
C4_NeverAboveCeiling == sink_max_size <= SINK_MAX_SIZE_CELING

(***************************************************************************)
(* Properties of the type mapper (SpecMapper)                              *)
(***************************************************************************)

HdCalled == sql_type.by = "hd"

\* The field is mapped by the integer rule: its type names integer, and neither
\* string nor boolean (which the mapper tries first).
IntegerTyped(js) ==
    js.hasType /\ "integer" \in js.type /\ "string" \notin js.type
               /\ "boolean" \notin js.type

\* The field is mapped by the number rule.
NumberTyped(js) ==
    js.hasType /\ "number" \in js.type /\ js.type \cap {"string", "boolean", "integer"} = {}

Bounds(js) == <<js.minimum, js.maximum>>

\* C6: an integer field maps to BIGINT, INTEGER, SMALLINT, SMALLINT when
\* (minimum, maximum) is the 64-bit, 32-bit, 16-bit signed range or [0, 255],
\* and to NUMERIC with scale 0 for every other pair of bounds, also when only
\* one end matches a range or a bound is absent.
C6_IntegerFingerprints ==
    HdCalled /\ IntegerTyped(jsonschema_type) =>
        LET b == Bounds(jsonschema_type)
            out == sql_type.out
        IN  CASE b = <<MSSQL_BIGINT_MIN, MSSQL_BIGINT_MAX>> -> out = SqlType("BIGINT", <<>>)
              [] b = <<MSSQL_INT_MIN, MSSQL_INT_MAX>> -> out = SqlType("INTEGER", <<>>)
              [] b = <<MSSQL_SMALLINT_MIN, MSSQL_SMALLINT_MAX>> -> out = SqlType("SMALLINT", <<>>)
              [] b = <<MSSQL_TINYINT_MIN, MSSQL_TINYINT_MAX>> -> out = SqlType("SMALLINT", <<>>)
              [] OTHER -> /\ out.kind = "type"
                          /\ out.name = "NUMERIC"
                          /\ Len(out.args) = 2
                          /\ out.args[2] = 0

\* C6 witness: an integer field whose minimum is the 32-bit minimum and whose
\* maximum is not the 32-bit maximum was mapped, to NUMERIC.
C6_Witness ==
    /\ HdCalled
    /\ IntegerTyped(jsonschema_type)
    /\ jsonschema_type.minimum = MSSQL_INT_MIN
    /\ jsonschema_type.maximum # MSSQL_INT_MAX
    /\ sql_type.out.name = "NUMERIC"

MatchesNumberFingerprint(js) ==
    Bounds(js) \in { <<MSSQL_MONEY_MIN, MSSQL_MONEY_MAX>>,
                     <<MSSQL_SMALLMONEY_MIN, MSSQL_SMALLMONEY_MAX>>,
                     <<MSSQL_FLOAT_MIN, MSSQL_FLOAT_MAX>>,
                     <<MSSQL_REAL_MIN, MSSQL_REAL_MAX>> }

\* The maximum is present and its decimal string has no exponent marker.
PlainDecimal(maximum) ==
    /\ maximum # NoneStr
    /\ \A i \in 1..Len(maximum) : maximum[i] \notin {"e", "E"}

\* indexOf: the 0-based position of the first c in s, -1 when there is none.
IndexOf(s, c) ==
    IF \E i \in 1..Len(s) : s[i] = c
      THEN (CHOOSE i \in 1..Len(s) : s[i] = c /\ \A j \in 1..(i - 1) : s[j] # c) - 1
      ELSE -1

NumberOf(s, c) == Cardinality({i \in 1..Len(s) : s[i] = c})

\* C7: a number field that matches no money/float/real fingerprint and whose
\* maximum's decimal string has no exponent marker maps to
\* NUMERIC(precision, scale) with precision = the number of '9' characters and
\* scale = precision - indexOf('.'), indexOf being -1 for a string with no
\* decimal point (so that scale = precision + 1 there).
C7_PlainNumberPrecisionScale ==
    /\ HdCalled
    /\ NumberTyped(jsonschema_type)
    /\ ~MatchesNumberFingerprint(jsonschema_type)
    /\ PlainDecimal(jsonschema_type.maximum)
    => LET m == jsonschema_type.maximum
           precision == NumberOf(m, "9")
       IN  sql_type.out = SqlType("NUMERIC", <<precision, precision - IndexOf(m, ".")>>)

\* C7 witness: such a field whose maximum has no decimal point ("99") was
\* mapped, to NUMERIC(2, 3).
C7_Witness ==
    /\ HdCalled
    /\ NumberTyped(jsonschema_type)
    /\ ~MatchesNumberFingerprint(jsonschema_type)
    /\ PlainDecimal(jsonschema_type.maximum)
    /\ IndexOf(jsonschema_type.maximum, ".") = -1
    /\ sql_type.out = SqlType("NUMERIC", <<2, 3>>)

\* C9, as claimed: the mapper is total, it returns a column type for every
\* schema field, also one whose type is absent.
C9_MapperTotal ==
    HdCalled => sql_type.out.kind = "type"

(***************************************************************************)
(* Properties of the table planner (SpecPlanner)                           *)
(***************************************************************************)

\* C8, as claimed: planning a table from a schema with properties emits one
\* column per property, in the schema's order; a column is a primary key
\* exactly when its name is among the primary keys, and a primary-key column
\* does not auto-increment; {id: integer[32-bit range], name: string[50]} with
\* key {id} yields [id INTEGER PRIMARY KEY, name VARCHAR(50)].
C8_OneColumnPerProperty ==
    table.kind # "none" /\ ~plan.as_temp_table /\ plan.hasProperties =>
        /\ table.kind = "table"
        /\ Len(table.columns) = Len(plan.properties)
        /\ \A i \in 1..Len(plan.properties) :
              LET c == table.columns[i]
              IN  /\ c.name = plan.properties[i].name
                  /\ c.primary_key <=> c.name \in plan.primary_keys
                  /\ c.primary_key => c.autoincrement = "False"
        /\ ( /\ plan.hd_jsonschema_types
             /\ plan.properties = <<Property("id", IdField), Property("name", NameField)>>
             /\ plan.primary_keys = {"id"} )
           => /\ table.columns[1].type = SqlType("INTEGER", <<>>)
              /\ table.columns[2].type = SqlType("VARCHAR", <<50>>)

(***************************************************************************)
(* Properties of the record conformer (SpecConform)                        *)
(***************************************************************************)

\* C5, as claimed: conform is idempotent, conform(conform(r, s), s) equals
\* conform(r, s), for every record and schema.
C5_Original ==
    conf.calls = 2 /\ conf.raised1 = "" =>
        conf.raised = "" /\ record = conf.record1

\* No non-null field of the record is declared contentEncoding == base64.
NoBase64Field ==
    \A i \in 1..Len(record) :
        record[i].value.kind # "none" => properties[record[i].key] # "base64"

\* C5, amended: for a record none of whose non-null fields is declared
\* base64, a second conform leaves the record exactly as the first left it
\* and ends as the first did (it raises exactly when the first raised).
C5_IdempotentWithoutBase64 ==
    conf.calls = 2 /\ NoBase64Field =>
        conf.raised = conf.raised1 /\ record = conf.record1

\* C5 witness: conform ran twice on a record with no base64 field, and the
\* first run removed NUL characters.
C5_Witness ==
    /\ conf.calls = 2
    /\ NoBase64Field
    /\ conf.raised = ""
    /\ log_count = 1

\* What the last call was given and did.
TextWithNul(value) == value.kind = "str" /\ \E i \in 1..Len(value.v) : value.v[i] = 0
HadNul == \E i \in 1..Len(conf.record0) : TextWithNul(conf.record0[i].value)
WithoutNul(v) == SelectSeq(v, LAMBDA c : c # 0)
Logged == log_count - conf.log0

\* Every text of the record is free of NUL, and every text that stayed a text
\* is the input with its NULs taken out.
NulsRemoved ==
    \A i \in 1..Len(record) :
        /\ ~TextWithNul(record[i].value)
        /\ (conf.record0[i].value.kind = "str" /\ record[i].value.kind = "str")
              => record[i].value.v = WithoutNul(conf.record0[i].value.v)

\* C10, as claimed: for every record conform removes every NUL from every
\* textual value and logs the message once if a field contained a NUL and not
\* at all otherwise.
C10_Original ==
    conf.calls >= 1 =>
        /\ NulsRemoved
        /\ Logged = IF HadNul THEN 1 ELSE 0

\* C10, amended: that holds for every record on which conform returns; when
\* conform raises part-way (a key the schema does not declare, a value that
\* is not base64) nothing is logged.
C10_NulsRemovedOnReturn ==
    conf.calls >= 1 =>
        IF conf.raised = ""
          THEN /\ NulsRemoved
               /\ Logged = IF HadNul THEN 1 ELSE 0
          ELSE Logged = 0

\* C10 witness: conform returned on a record in which two fields held NULs.
C10_Witness ==
    /\ conf.calls = 1
    /\ conf.raised = ""
    /\ Cardinality({i \in 1..Len(conf.record0) : TextWithNul(conf.record0[i].value)}) >= 2
    /\ Logged = 1

(***************************************************************************)
(* Further properties of the timer and the batch-size controller (Spec)    *)
(***************************************************************************)

\* counter_based_max_size() returned; what it added to the threshold.
Corrected == last.op = "counter" /\ ~last.raised
Change == sink_max_size - last.size0

\* perfDiff = target - lap is strictly below the shortfall bound -0.33 * target
BelowShortfall ==
    lap_time # None /\ 100 * (max_perf_counter - lap_time) < -(33 * max_perf_counter)

\* perfDiff is at or above the surplus bound 0.75 * target
AtOrAboveSurplus ==
    lap_time # None /\ 100 * (max_perf_counter - lap_time) >= 75 * max_perf_counter

\* C15, as claimed: below the shortfall bound the threshold T changes by -5000
\* if T >= 15000, -1000 if 10000 <= T < 15000, -100 if 1000 <= T < 10000,
\* +10 if 10 < T < 1000 and 0 if T <= 10.
C15_ShrinkLadder ==
    Corrected /\ BelowShortfall =>
        Change = CASE last.size0 >= 15000 -> -5000
                   [] last.size0 >= 10000 /\ last.size0 < 15000 -> -1000
                   [] last.size0 >= 1000 /\ last.size0 < 10000 -> -100
                   [] last.size0 > 10 /\ last.size0 < 1000 -> 10
                   [] OTHER -> 0

\* C16, as claimed: at or above the surplus bound a threshold T below the
\* ceiling changes by +10000 if T >= 10000, +1000 if 1000 <= T < 10000, +100 if
\* 100 <= T < 1000, +10 if 10 <= T < 100 and 0 if T < 10; a threshold at or
\* above the ceiling is not grown.
C16_GrowLadder ==
    Corrected /\ AtOrAboveSurplus =>
        Change = CASE last.size0 >= SINK_MAX_SIZE_CELING -> 0
                   [] last.size0 >= 10000 /\ last.size0 < SINK_MAX_SIZE_CELING -> 10000
                   [] last.size0 >= 1000 /\ last.size0 < 10000 -> 1000
                   [] last.size0 >= 100 /\ last.size0 < 1000 -> 100
                   [] last.size0 >= 10 /\ last.size0 < 100 -> 10
                   [] OTHER -> 0

\* C17: from a positive initial threshold the threshold stays positive, and no
\* call of counter_based_max_size decreases a threshold that is <= 10: it
\* leaves it alone or adds 10.
C17_StaysPositive ==
    /\ sink_max_size > 0
    /\ last.op = "counter" /\ last.size0 <= 10 => Change \in {0, 10}

\* C17 witness: a lap below the shortfall bound was answered at a threshold
\* <= 10, which stayed where it was.
C17_Witness ==
    /\ Corrected
    /\ BelowShortfall
    /\ last.size0 <= 10
    /\ sink_max_size = last.size0

\* C19: a start() or stop() that raises leaves start_time, stop_time and
\* lap_time unchanged; a successful start() changes only start_time (lap_time
\* of the last completed lap stays readable); a successful stop() sets
\* lap_time = stop_time - start_time and clears start_time.
C19_TimerFrame ==
    [][ /\ last'.op \in {"start", "stop"} /\ last'.raised
            => UNCHANGED <<start_time, stop_time, lap_time>>
        /\ last'.op = "start" /\ ~last'.raised
            => /\ start_time' # None
               /\ UNCHANGED <<stop_time, lap_time, sink_max_size, max_perf_counter>>
        /\ last'.op = "stop" /\ ~last'.raised
            => /\ lap_time' = stop_time' - start_time
               /\ start_time' = None
               /\ UNCHANGED <<sink_max_size, max_perf_counter>>
      ]_vars

\* C19 witness: a second lap was started while the first lap's time is kept.
C19_Witness ==
    /\ last.op = "start"
    /\ ~last.raised
    /\ lap_time # None
    /\ start_time # None

(***************************************************************************)
(* Further properties of the table planner (SpecPlanner)                   *)
(***************************************************************************)

\* create_empty_table() was called for a permanent table.
Planned == table.kind # "none" /\ ~plan.as_temp_table

SchemaError == [kind |-> "raise", name |-> "RuntimeError", columns |-> <<>>]

C11_UpsertIffKeyAndMethod ==
    flushed.calls > 0 =>
        LET upsert == target_table.primary_key # {} /\ load_method = UPSERT
        IN  /\ insert_statement.kind = "on_conflict_do_update" <=> upsert
            /\ upsert => insert_statement.constraint = target_table.primary_key
            /\ ~upsert => insert_statement.kind = "insert"
            /\ insert_statement.table = target_table.name

\* C11 witness: a keyed table was flushed under the upsert load method and the
\* statement is an upsert.
C11_Witness ==
    /\ flushed.calls > 0
    /\ load_method = UPSERT
    /\ target_table.primary_key = {"id"}
    /\ insert_statement.kind = "on_conflict_do_update"

\* C12, as claimed: when executing a flush fails, bulk_insert_records catches
\* the failure, logs the driver error once, returns 0 without raising and does
\* not execute the statement again.
C12_FailureCaughtAndLogged ==
    flushed.calls > 0 /\ flushed.outcome # Executed =>
        /\ flushed.raised = ""
        /\ flushed.ret = 0
        /\ sink_log = flushed.log0 + 1
        /\ flushed.executions = flushed.exec0 + 1

\* C18: over any sequence of flushes on one sink the table is introspected
\* once and the statement built once, both by the first flush; every later
\* flush executes the cached statement and leaves the cached table and
\* statement as they were, whatever table name it is given and however the
\* earlier executions ended.
C18_IntrospectAndBuildOnce ==
    /\ flushed.introspections <= 1
    /\ flushed.builds <= 1
    /\ flushed.calls >= 1 =>
          /\ flushed.introspections = 1
          /\ flushed.builds = 1
          /\ flushed.executed = insert_statement
    /\ flushed.calls >= 2 =>
          /\ target_table = flushed.table0
          /\ insert_statement = flushed.stmt0

\* C18 witness: the first flush's execution failed and the second flush,
\* given another table name, executed the cached statement.
C18_Witness ==
    /\ flushed.calls = 2
    /\ flushed.failures = 1
    /\ flushed.outcome = Executed
    /\ flushed.name # target_table.name
    /\ flushed.executed = flushed.stmt0

(***************************************************************************)
(* Properties of the sink registry (SpecTarget)                            *)
(***************************************************************************)

ActiveSinks == { sinks_active[s] : s \in StreamNames } \ {NoSink}
ClearedSinks == { sinks_to_clear[i] : i \in 1..Len(sinks_to_clear) }

\* What get_sink found registered for the stream it was called for.
Existing == got.active0[got.stream_name]

\* The call had to make a sink: none was registered, or the registered one's
\* schema or key_properties differ from the arguments.
MustCreate ==
    \/ Existing = NoSink
    \/ Existing.schema # got.schema
    \/ Existing.key_properties # got.key_properties

\* C14: over any sequence of get_sink calls there is at most one active sink
\* per stream name; a call with a schema makes a new active sink exactly when
\* no sink is registered for the stream or the schema or key_properties given
\* differ from the active sink's, and then the old sink, if any, is appended
\* to the to-clear list; no sink ever made is dropped (nothing in this target
\* drains the list); a call with the active sink's schema and key_properties
\* returns that sink; a call without a schema returns the active sink, or
\* fails when there is none, and changes nothing.
C14_GetSink ==
    /\ \A s \in StreamNames :
          sinks_active[s] # NoSink => sinks_active[s].stream_name = s
    /\ { x.id : x \in ActiveSinks \cup ClearedSinks } = 1..got.created
    /\ Cardinality(ActiveSinks) + Len(sinks_to_clear) = got.created
    /\ got.calls > 0 =>
          /\ \A s \in StreamNames \ {got.stream_name} :
                sinks_active[s] = got.active0[s]
          /\ got.schema # NoneSchema /\ MustCreate =>
                /\ got.raised = ""
                /\ got.ret.id = got.created
                /\ got.ret.schema = got.schema
                /\ got.ret \notin { got.active0[s] : s \in StreamNames }
                /\ sinks_active[got.stream_name] = got.ret
                /\ sinks_to_clear = IF Existing = NoSink THEN got.clear0
                                    ELSE Append(got.clear0, Existing)
          /\ got.schema # NoneSchema /\ ~MustCreate =>
                /\ got.raised = ""
                /\ got.ret = Existing
                /\ sinks_active = got.active0
                /\ sinks_to_clear = got.clear0
          /\ got.schema = NoneSchema =>
                /\ got.raised = "" <=> Existing # NoSink
                /\ got.raised = "" => got.ret = Existing
                /\ sinks_active = got.active0
                /\ sinks_to_clear = got.clear0

\* C14 witness: a stream's sink was replaced twice, both old sinks are on the
\* to-clear list in the order they were replaced, and the last call changed
\* only the key_properties.
C14_Witness ==
    /\ got.calls = 3
    /\ got.created = 3
    /\ Len(sinks_to_clear) = 2
    /\ sinks_to_clear[1].id = 1
    /\ sinks_to_clear[2].id = 2
    /\ sinks_to_clear[2].schema = got.schema
    /\ sinks_active[got.stream_name].id = 3

====
